---- MODULE Spec2Model ----
(***************************************************************************)
(* Model of files/views.py: the Yandex.Disk public-folder client.          *)
(*   - get_files_from_public_link : paginated listing behind a cache       *)
(*   - get_download_link / get_download_link_async / download_file         *)
(*   - create_zip_archive_from_yandex / download_multiple_files            *)
(* Python str values of public_key and media_type are TLA+ strings; a      *)
(* file_path is a sequence of one-character strings so it can be sliced.   *)
(***************************************************************************)
EXTENDS Integers, Sequences, FiniteSets, TLC

\* ------------------------------------------------------------------ bounds
MaxItems == 125
MaxCalls == 2
MaxNow == 7200
TickStep == 1800

\* ------------------------------------------------------- program constants
limit == 50
CACHE_TIMEOUT == 3600

\* ----------------------------------------------------------- Python values
\* Python's None, kept apart from every str (in particular from "None").
PyNone == "<py:None>"

\* bool(x) for x a str or None.
Truthy(x) == x # PyNone /\ x # ""

\* str(x) as an f-string formats it.
Str(x) == IF x = PyNone THEN "None" ELSE x

Min(a, b) == IF a < b THEN a ELSE b

\* ------------------------------------------------------------ listing: inputs
PublicKeys == {"k", "j"}
MediaTypes == {PyNone, "", "image", "None"}

\* The media_type field the remote attaches to the i-th item of a folder;
\* PyNone stands for an item without the field (item.get returns None).
ItemMediaType(i) == CASE i % 3 = 1 -> "image"
                      [] i % 3 = 2 -> "video"
                      [] OTHER     -> PyNone

RemoteItem(i) == [path |-> i, media_type |-> ItemMediaType(i)]

RemoteFolder(n) == [i \in 1..n |-> RemoteItem(i)]

FolderSizes == {0, limit, MaxItems}

\* What a page request answers.
PageOutcomes == {"ok", "no_embedded", "status", "bad_body", "transport"}

VARIABLES
    folder,     \* the items of the remote public folder, in the API's order
    cache,      \* django cache: cache key -> [val, exp]
    now,        \* the clock, in seconds
    hist,       \* (public_key, media_type) -> what its last cache-missing call returned
    calls,      \* listing calls started so far
    lpc,        \* get_files_from_public_link: "idle", "paging", "returned", "raised"
    largs,      \* its arguments [public_key, media_type]
    files,      \* its local files
    offset,     \* its local offset
    requests,   \* offsets of the page requests it has issued
    outcomes,   \* what each of those requests answered
    result,     \* the value it returned
    prior       \* hist entry of the pair when the call started

lvars == <<folder, cache, now, hist, calls, lpc, largs, files, offset,
           requests, outcomes, result, prior>>

VARIABLES
    sync,       \* the last call of get_download_link
    async,      \* the last call of get_download_link_async
    http        \* the last response of download_file

linkvars == <<sync, async, http>>

VARIABLES
    zpc,        \* download_multiple_files: "idle", "resolve", "fetch", "done", "raised"
    zreq,       \* its request [method, public_key, files]
    zi,         \* index in file_paths of the file being processed
    zlink,      \* download_url of that file
    zip,        \* entries written to zip_file so far: [name, data]
    zlog,       \* per processed file: [ok, bytes] (ok: resolved and fetched with 200)
    net,        \* network requests issued by the handler so far
    zresp       \* its HTTP response [status, body]

zipvars == <<zpc, zreq, zi, zlink, zip, zlog, net, zresp>>

vars == <<lvars, linkvars, zipvars>>

\* ------------------------------------------------------------- the cache
cache_key(public_key, media_type) ==
    "files_" \o public_key \o "_" \o Str(media_type)

Live(store, t) == [k \in {x \in DOMAIN store : store[x].exp > t} |-> store[k]]

cache_get(key) ==
    IF key \in DOMAIN cache /\ cache[key].exp > now
    THEN [found |-> TRUE, val |-> cache[key].val]
    ELSE [found |-> FALSE, val |-> <<>>]

cache_set(key, val, timeout) ==
    [k \in DOMAIN cache \cup {key} |->
        IF k = key THEN [val |-> val, exp |-> now + timeout] ELSE cache[k]]

\* `cached_files is not None`
CacheHitTruthy(c) == c.found /\ c.val # <<>>
CacheHit(c) == c.found

\* ------------------------------------------------------------ the remote API
\* GET /resources?public_key=..&limit=..&offset=.. : _embedded.items
RemotePage(off, lim) ==
    SubSeq(folder, off + 1, Min(off + lim, Len(folder)))

\* ---------------------------------------------------------------- listing
\* `if media_type and item.get('media_type') != media_type: continue`
KeepItemAlways(item, media_type) == TRUE
KeepItem(item, media_type) ==
    ~(Truthy(media_type) /\ item.media_type # media_type)

RECURSIVE AppendKept(_, _, _)
AppendKept(acc, items, media_type) ==
    IF items = <<>> THEN acc
    ELSE AppendKept(IF KeepItem(Head(items), media_type)
                    THEN Append(acc, Head(items)) ELSE acc,
                    Tail(items), media_type)

Pair(a) == <<a.public_key, a.media_type>>

NoPrior == [had |-> FALSE, val |-> <<>>]

StartList(pk, mt) ==
    /\ lpc # "paging"
    /\ calls < MaxCalls
    /\ calls' = calls + 1
    /\ largs' = [public_key |-> pk, media_type |-> mt]
    /\ prior' = IF <<pk, mt>> \in DOMAIN hist
                THEN [had |-> TRUE, val |-> hist[<<pk, mt>>].val]
                ELSE NoPrior
    /\ requests' = <<>>
    /\ outcomes' = <<>>
    /\ files' = <<>>
    /\ offset' = 0
    /\ LET c == cache_get(cache_key(pk, mt)) IN
         IF CacheHit(c)
         THEN /\ lpc' = "returned"
              /\ result' = c.val
         ELSE /\ lpc' = "paging"
              /\ result' = <<>>
    /\ UNCHANGED <<folder, cache, now, hist>>
    /\ UNCHANGED <<linkvars, zipvars>>

\* The statements after the loop: cache.set and return.
Finish(fs) ==
    /\ cache' = cache_set(cache_key(largs.public_key, largs.media_type),
                          fs, CACHE_TIMEOUT)
    /\ hist' = [p \in DOMAIN hist \cup {Pair(largs)} |->
                  IF p = Pair(largs)
                  THEN [val |-> fs, exp |-> now + CACHE_TIMEOUT]
                  ELSE hist[p]]
    /\ result' = fs
    /\ lpc' = "returned"

\* `offset += limit`
NextOffsetByOne(off) == off + 1
NextOffset(off) == off + limit

\* requests.get or response.json() raises; no try/except surrounds them.
Raises(o) == o \in {"bad_body", "transport"}

\* `if response.status_code == 200: ... else: break`
StatusBreaks(o) == o = "status"

\* `if not items: break`
ItemsBreakShort(items) == Len(items) < limit
ItemsBreak(items) == items = <<>>

\* data.get('_embedded', {}).get('items', []) of a 200 response
EmbeddedItems(o) == IF o = "ok" THEN RemotePage(offset, limit) ELSE <<>>

\* One turn of the `while True` loop, the trailing cache.set and return
\* included when the turn leaves the loop.
FetchPage(o) ==
    /\ lpc = "paging"
    /\ requests' = Append(requests, offset)
    /\ outcomes' = Append(outcomes, o)
    /\ IF Raises(o)
       THEN /\ lpc' = "raised"
            /\ UNCHANGED <<files, offset, cache, hist, result>>
       ELSE IF StatusBreaks(o) \/ ItemsBreak(EmbeddedItems(o))
       THEN /\ Finish(files)
            /\ UNCHANGED <<files, offset>>
       ELSE /\ files' = AppendKept(files, EmbeddedItems(o), largs.media_type)
            /\ offset' = NextOffset(offset)
            /\ UNCHANGED <<cache, hist, result, lpc>>
    /\ UNCHANGED <<folder, now, calls, largs, prior>>
    /\ UNCHANGED <<linkvars, zipvars>>

Tick ==
    /\ now + TickStep <= MaxNow
    /\ now' = now + TickStep
    /\ cache' = Live(cache, now')
    /\ hist' = Live(hist, now')
    /\ UNCHANGED <<folder, calls, lpc, largs, files, offset, requests,
                   outcomes, result, prior>>
    /\ UNCHANGED <<linkvars, zipvars>>

ListInit ==
    /\ folder \in {RemoteFolder(n) : n \in FolderSizes}
    /\ cache = <<>>
    /\ now = 0
    /\ hist = <<>>
    /\ calls = 0
    /\ lpc = "idle"
    /\ largs = [public_key |-> "k", media_type |-> PyNone]
    /\ files = <<>>
    /\ offset = 0
    /\ requests = <<>>
    /\ outcomes = <<>>
    /\ result = <<>>
    /\ prior = NoPrior

ListNext ==
    \/ \E pk \in PublicKeys, mt \in MediaTypes : StartList(pk, mt)
    \/ \E o \in PageOutcomes : FetchPage(o)
    \/ Tick

\* ------------------------------------------------------- strings as chars
RECURSIVE Join(_)
Join(cs) == IF cs = <<>> THEN "" ELSE Head(cs) \o Join(Tail(cs))

\* s[:n] and s[n:] of a Python str
Upto(cs, n) == SubSeq(cs, 1, Min(n, Len(cs)))
From(cs, n) == IF n >= Len(cs) THEN <<>> ELSE SubSeq(cs, n + 1, Len(cs))

\* urllib.parse.quote_plus, one character at a time
QuotePlusChar(c) == CASE c = " " -> "+"
                      [] c = "/" -> "%2F"
                      [] c = "+" -> "%2B"
                      [] OTHER   -> c

quote_plus(cs) == [i \in 1..Len(cs) |-> QuotePlusChar(cs[i])]

\* What the server reads out of one character or escape of a query string.
QueryDecodeChar(t) == CASE t = "+"   -> " "
                        [] t = "%2F" -> "/"
                        [] t = "%2B" -> "+"
                        [] OTHER     -> t

QueryDecode(ts) == [i \in 1..Len(ts) |-> QueryDecodeChar(ts[i])]

\* ------------------------------------------------- download links: inputs
KEY_PREFIX_LEN == 31

ShareHost == <<"d","i","s","k",".","y","a","n","d","e","x",".","r","u">>
ShareId == [i \in 1..14 |-> "X"]
\* "disk.yandex.ru/d/XXXXXXXXXXXXXX"
ShareTail == ShareHost \o <<"/","d","/">> \o ShareId
\* "https://disk.yandex.ru/d/XXXXXXXXXXXXXX"
ShareUrl == "https://" \o Join(ShareTail)

PathA == <<"/","a"," ","b",".","t","x","t">>
PathC == <<"/","d","/","c","+",".","t","x","t">>
PathD == <<"/","d","/","e",".","t","x","t">>
PathMissing == <<"/","n","o">>

\* The files of the shared folder and the link the remote issues for each.
RemoteHref == [f \in {<<ShareUrl, PathA>>, <<ShareUrl, PathC>>, <<ShareUrl, PathD>>} |->
                  "https://dl/" \o Join(f[2])]

LinkKeys == {"https:", ShareUrl}
LinkPaths == {PathA, Tail(PathA), PathC, PathMissing,
              <<"/">> \o ShareTail \o PathA, ShareTail \o PathC}

\* How the remote treats one download request.
ApiModes == {"up", "no_href", "down", "bad_body", "unreachable"}

\* GET /resources/download?public_key=..&path=.. ; the answer is
\* [kind, href]: kind "ok" is a 200 with a JSON body, "status" a non-200,
\* "bad_body" a 200 whose body json() rejects, "transport" a failed request.
Respond(mode, req) ==
    LET f == <<req.public_key, QueryDecode(req.path)>> IN
    CASE mode = "unreachable" -> [kind |-> "transport", href |-> PyNone]
      [] mode = "bad_body"    -> [kind |-> "bad_body", href |-> PyNone]
      [] mode = "down"        -> [kind |-> "status", href |-> PyNone]
      [] mode = "no_href"     -> [kind |-> "ok", href |-> PyNone]
      [] OTHER -> IF f \in DOMAIN RemoteHref
                  THEN [kind |-> "ok", href |-> RemoteHref[f]]
                  ELSE [kind |-> "status", href |-> PyNone]

\* `if response.status_code == 200: return response.json().get('href', '')
\*  else: return ''`, the same in both resolvers; "raise" when the request or
\* json() raises.
Raise == "<py:raise>"
LinkOfResponse(resp) ==
    CASE resp.kind \in {"transport", "bad_body"} -> Raise
      [] resp.kind = "status" -> ""
      [] OTHER -> IF resp.href = PyNone THEN "" ELSE resp.href

\* `if response.status == 200: data = await response.json();
\*  return data.get('href', '') else: return ''`
LinkOfResponseAsync(resp) ==
    IF resp.kind = "transport" THEN Raise
    ELSE IF resp.kind \in {"ok", "bad_body"}
         THEN (IF resp.kind = "bad_body" THEN Raise
               ELSE IF resp.href = PyNone THEN "" ELSE resp.href)
         ELSE ""

\* The query parameters get_download_link formats into its URL.
SyncRequestVerbatim(public_key, file_path) ==
    [public_key |-> public_key, path |-> quote_plus(file_path)]
SyncRequest(public_key, file_path) ==
    [public_key |-> public_key \o "//" \o Join(Upto(file_path, KEY_PREFIX_LEN)),
     path |-> quote_plus(From(file_path, KEY_PREFIX_LEN))]

\* The query parameters get_download_link_async formats into its URL.
AsyncRequest(public_key, file_path) ==
    [public_key |-> public_key, path |-> file_path]

NoCall == [done |-> FALSE]

ResolverCall(pk, fp, m, req, out) ==
    [done |-> TRUE, public_key |-> pk, file_path |-> fp, mode |-> m,
     req |-> req, resp |-> Respond(m, req), out |-> out]

get_download_link(pk, fp, m) ==
    LET req == SyncRequest(pk, fp) IN
    ResolverCall(pk, fp, m, req, LinkOfResponse(Respond(m, req)))

get_download_link_async(pk, fp, m) ==
    LET req == AsyncRequest(pk, fp) IN
    ResolverCall(pk, fp, m, req, LinkOfResponseAsync(Respond(m, req)))

\* `if file_path.startswith('/'): file_path = file_path[1:]`
StripLeadingSlash(fp) == IF fp # <<>> /\ Head(fp) = "/" THEN Tail(fp) ELSE fp

\* `if download_url: return redirect(download_url)` / `HttpResponse(.., status=400)`
RouteResponseAlwaysRedirect(download_url) ==
    [status |-> 302, location |-> download_url]
RouteResponse(download_url) ==
    IF Truthy(download_url)
    THEN [status |-> 302, location |-> download_url]
    ELSE [status |-> 400, location |-> ""]

\* download_file(request, public_key, file_path)
DownloadFile(pk, fp, m) ==
    LET c == get_download_link(pk, StripLeadingSlash(fp), m) IN
    /\ sync' = c
    /\ http' = IF c.out = Raise
               THEN [status |-> 500, location |-> ""]
               ELSE RouteResponse(c.out)
    /\ UNCHANGED async
    /\ UNCHANGED <<lvars, zipvars>>

\* One call of get_download_link_async, as the archive builder makes it.
ResolveAsync(pk, fp, m) ==
    /\ async' = get_download_link_async(pk, fp, m)
    /\ UNCHANGED <<sync, http>>
    /\ UNCHANGED <<lvars, zipvars>>

LinkInit ==
    /\ sync = NoCall
    /\ async = NoCall
    /\ http = [status |-> 0, location |-> ""]

LinkNext ==
    \/ \E pk \in LinkKeys, fp \in LinkPaths, m \in ApiModes : DownloadFile(pk, fp, m)
    \/ \E pk \in LinkKeys, fp \in LinkPaths, m \in ApiModes : ResolveAsync(pk, fp, m)

\* --------------------------------------------------------- archive: inputs
MaxFiles == 3

ZipKeys == {ShareUrl}
ZipPaths == {PathA, PathC, PathD}
Methods == {"GET", "POST"}
FetchOutcomes == {"ok", "status", "transport"}

RECURSIVE SeqsUpTo(_, _)
SeqsUpTo(S, n) ==
    IF n = 0 THEN {<<>>}
    ELSE LET shorter == SeqsUpTo(S, n - 1) IN
         shorter \cup {Append(q, x) : q \in {r \in shorter : Len(r) = n - 1}, x \in S}

\* The bytes the remote serves at a download link.
RemoteBytes(link) == <<"bytes of", link>>

NoBody == <<"no archive">>

\* `if not files_to_download`
NeverEmpty(fps) == FALSE
EmptySelection(fps) == fps = <<>>

\* the arcname of `zip_file.writestr(file_path, ...)`
RECURSIVE Basename(_)
Basename(fp) ==
    IF \A i \in 1..Len(fp) : fp[i] # "/" THEN fp ELSE Basename(Tail(fp))
EntryName(file_path) == file_path

\* The end of the `for` loop and what follows it: seek(0), getvalue() and
\* the application/zip response.
NextFile(archive) ==
    IF zi < Len(zreq.files)
    THEN /\ zi' = zi + 1
         /\ zpc' = "resolve"
         /\ zresp' = zresp
    ELSE /\ zi' = zi
         /\ zpc' = "done"
         /\ zresp' = [status |-> 200, body |-> archive]

\* download_multiple_files up to its first await
DownloadMultiple(method, pk, fps) ==
    /\ zpc \in {"idle", "done", "raised"}
    /\ zreq' = [method |-> method, public_key |-> pk, files |-> fps]
    /\ net' = 0
    /\ zip' = <<>>
    /\ zlog' = <<>>
    /\ zlink' = ""
    /\ zi' = 1
    /\ IF method # "POST"
       THEN /\ zpc' = "done"
            /\ zresp' = [status |-> 405, body |-> NoBody]
       ELSE IF EmptySelection(fps)
       THEN /\ zpc' = "done"
            /\ zresp' = [status |-> 400, body |-> NoBody]
       ELSE IF fps = <<>>
       THEN \* the `for` loop has nothing to do
            /\ zpc' = "done"
            /\ zresp' = [status |-> 200, body |-> <<>>]
       ELSE /\ zpc' = "resolve"
            /\ zresp' = [status |-> 0, body |-> NoBody]
    /\ UNCHANGED <<lvars, linkvars>>

\* `download_url = await get_download_link_async(public_key, file_path)`
ResolveStep(m) ==
    /\ zpc = "resolve"
    /\ net' = net + 1
    /\ LET c == get_download_link_async(zreq.public_key, zreq.files[zi], m) IN
         IF c.out = Raise
         THEN /\ zpc' = "raised"
              /\ zresp' = [status |-> 500, body |-> NoBody]
              /\ UNCHANGED <<zi, zlink, zlog>>
         ELSE IF Truthy(c.out)
         THEN /\ zpc' = "fetch"
              /\ zlink' = c.out
              /\ UNCHANGED <<zi, zlog, zresp>>
         ELSE /\ zlog' = Append(zlog, [ok |-> FALSE, bytes |-> <<>>])
              /\ zlink' = c.out
              /\ NextFile(zip)
    /\ UNCHANGED <<zreq, zip>>
    /\ UNCHANGED <<lvars, linkvars>>

\* `session.get(download_url)` and `zip_file.writestr(file_path, await response.read())`
FetchStep(o) ==
    /\ zpc = "fetch"
    /\ net' = net + 1
    /\ CASE o = "ok" ->
              LET bytes == RemoteBytes(zlink) IN
              /\ zip' = Append(zip, [name |-> EntryName(zreq.files[zi]), data |-> bytes])
              /\ zlog' = Append(zlog, [ok |-> TRUE, bytes |-> bytes])
              /\ NextFile(zip')
         [] o = "status" ->
              /\ zip' = zip
              /\ zlog' = Append(zlog, [ok |-> FALSE, bytes |-> <<>>])
              /\ NextFile(zip)
         [] OTHER ->
              /\ zpc' = "raised"
              /\ zresp' = [status |-> 500, body |-> NoBody]
              /\ UNCHANGED <<zi, zip, zlog>>
    /\ UNCHANGED <<zreq, zlink>>
    /\ UNCHANGED <<lvars, linkvars>>

ZipInit ==
    /\ zpc = "idle"
    /\ zreq = [method |-> "GET", public_key |-> ShareUrl, files |-> <<>>]
    /\ zi = 1
    /\ zlink = ""
    /\ zip = <<>>
    /\ zlog = <<>>
    /\ net = 0
    /\ zresp = [status |-> 0, body |-> NoBody]

ZipNext ==
    \/ \E method \in Methods, pk \in ZipKeys, fps \in SeqsUpTo(ZipPaths, MaxFiles) :
          DownloadMultiple(method, pk, fps)
    \/ \E m \in ApiModes : ResolveStep(m)
    \/ \E o \in FetchOutcomes : FetchStep(o)

Init == ListInit /\ LinkInit /\ ZipInit

ListSpec == Init /\ [][ListNext]_vars

LinkSpec == Init /\ [][LinkNext]_vars

ZipSpec == Init /\ [][ZipNext]_vars

\* ------------------------------------------------------ listing: properties
NonEmptyPages(n) == (n + limit - 1) \div limit

PageOffsets(n) == [i \in 1..n |-> (i - 1) * limit]

AllOk == \A i \in 1..Len(outcomes) : outcomes[i] = "ok"

LastOutcome == IF outcomes = <<>> THEN "none" ELSE outcomes[Len(outcomes)]

\* The items of the pages the call has read so far, in the API's order.
Seen == SubSeq(folder, 1, Min(offset, Len(folder)))

Matching(items, mt) ==
    SelectSeq(items, LAMBDA it : mt = PyNone \/ it.media_type = mt)

MatchingOrEmptyFilter(items, mt) ==
    SelectSeq(items, LAMBDA it : mt \in {PyNone, ""} \/ it.media_type = mt)

Pairs == PublicKeys \X MediaTypes

Absent == [val |-> <<>>, exp |-> -1]

Entry(store, p) ==
    IF cache_key(p[1], p[2]) \in DOMAIN store
    THEN store[cache_key(p[1], p[2])] ELSE Absent

\* C1 as stated: an unfiltered cache-missing call against an always-successful
\* API returns the folder's items in order and issues as many page requests
\* as the folder has non-empty pages (3 for 125 items).
C1_AsClaimed ==
    (lpc = "returned" /\ requests # <<>> /\ largs.media_type = PyNone /\ AllOk)
        => /\ result = folder
           /\ Len(requests) = NonEmptyPages(Len(folder))

\* C1 amended: such a call returns the folder's items in order and issues one
\* request per non-empty page plus the request that finds the empty page, at
\* offsets 0, 50, 100, ... (4 requests for 125 items).
C1_Pagination ==
    (lpc = "returned" /\ requests # <<>> /\ largs.media_type = PyNone /\ AllOk)
        => /\ result = folder
           /\ requests = PageOffsets(NonEmptyPages(Len(folder)) + 1)

C1_Witness ==
    /\ lpc = "returned" /\ largs.media_type = PyNone /\ AllOk
    /\ Len(folder) = MaxItems
    /\ Len(requests) = NonEmptyPages(MaxItems) + 1
    /\ result = folder

\* C2: a call whose pair was returned by a cache-missing call less than
\* CACHE_TIMEOUT ago issues no request and returns that call's sequence,
\* an empty one included.
C2_CacheHit ==
    (lpc = "returned" /\ prior.had)
        => /\ requests = <<>>
           /\ result = prior.val

C2_Witness ==
    /\ lpc = "returned" /\ prior.had /\ prior.val = <<>>
    /\ Len(folder) > 0 /\ now > 0 /\ requests = <<>>

C4_AsClaimed ==
    (requests # <<>> /\ lpc \in {"paging", "returned"})
        => files = Matching(Seen, largs.media_type)

\* C4 amended: an item read while paging is kept iff the filter is None or
\* the empty string, or equals the item's media_type.
C4_MediaFilter ==
    (requests # <<>> /\ lpc \in {"paging", "returned"})
        => /\ files = MatchingOrEmptyFilter(Seen, largs.media_type)
           /\ lpc = "returned" => result = files

C4_Witness ==
    /\ lpc = "returned" /\ largs.media_type = "image" /\ AllOk
    /\ Len(folder) = MaxItems
    /\ Len(result) = (MaxItems + 2) \div 3

\* C8 as stated: a failed page request, by status or by a transport-level
\* error, never makes the call raise: it returns the items read so far.
C8_AsClaimed ==
    LastOutcome \in {"status", "bad_body", "transport"}
        => lpc = "returned" /\ result = files

\* C10 as stated: a cache-missing call that completes leaves its result in
\* the cache under its pair for CACHE_TIMEOUT, and the entry of every other
\* pair is unchanged.
C10_AsClaimed ==
    [][(lpc = "paging" /\ lpc' = "returned")
         => /\ Entry(cache', Pair(largs)) =
                 [val |-> result', exp |-> now + CACHE_TIMEOUT]
            /\ \A q \in Pairs \ {Pair(largs)} : Entry(cache', q) = Entry(cache, q)]_vars

\* ------------------------------------------------ download links: properties
SameInput == /\ sync.done /\ async.done
             /\ sync.public_key = async.public_key
             /\ sync.file_path = async.file_path

\* C6 as stated: on the same input and the same remote behaviour the two
\* resolvers send the same public_key and path and return the same result.
C6_AsClaimed ==
    (SameInput /\ sync.mode = async.mode)
        => sync.req = async.req /\ sync.out = async.out

\* C6 amended: the two resolvers turn the same API answer into the same
\* result, but send different requests: the async one sends public_key and
\* file_path as given, the blocking one sends public_key + "//" +
\* file_path[:31] as the key and the percent-encoding of file_path[31:] as
\* the path.
C6_Resolvers ==
    /\ async.done =>
         /\ async.req.public_key = async.public_key
         /\ async.req.path = async.file_path
    /\ sync.done =>
         LET n == Min(KEY_PREFIX_LEN, Len(sync.file_path)) IN
         /\ sync.req.public_key =
               sync.public_key \o "//" \o Join([i \in 1..n |-> sync.file_path[i]])
         /\ Len(sync.req.path) = Len(sync.file_path) - n
         /\ \A i \in 1..Len(sync.req.path) :
               QueryDecodeChar(sync.req.path[i]) = sync.file_path[n + i]
    /\ (sync.done /\ async.done /\ sync.resp = async.resp)
         => sync.out = async.out

C6_Witness ==
    /\ SameInput /\ sync.mode = "up" /\ async.mode = "up"
    /\ Len(sync.file_path) > KEY_PREFIX_LEN
    /\ sync.req.public_key = ShareUrl
    /\ sync.out = RemoteHref[<<ShareUrl, PathC>>]
    /\ async.out = ""

\* C9: a non-success status makes either resolver return the empty link
\* without raising; download_file answers 400 for an empty link and a
\* redirect to the link itself for a non-empty one.
C9_EmptyLink ==
    /\ (sync.done /\ sync.resp.kind = "status") => sync.out = ""
    /\ (async.done /\ async.resp.kind = "status") => async.out = ""
    /\ (http.status # 0 /\ sync.out = "") => http = [status |-> 400, location |-> ""]
    /\ (http.status # 0 /\ sync.out \notin {"", Raise})
         => http = [status |-> 302, location |-> sync.out]

C9_Witness ==
    /\ sync.done /\ sync.resp.kind = "status" /\ sync.mode = "down"
    /\ http.status = 400
    /\ async.done /\ async.resp.kind = "status" /\ async.out = ""

\* --------------------------------------------------------- archive: properties
\* The entries the claim expects for the files processed so far: one per
\* file that resolved and fetched, named by its path, holding its bytes.
RECURSIVE ExpectedEntries(_)
ExpectedEntries(n) ==
    IF n = 0 THEN <<>>
    ELSE IF zlog[n].ok
         THEN Append(ExpectedEntries(n - 1),
                     [name |-> zreq.files[n], data |-> zlog[n].bytes])
         ELSE ExpectedEntries(n - 1)

\* C5: the returned archive holds, in input order, exactly one entry per
\* input path whose link resolved and whose fetch succeeded, named by the
\* path and holding the fetched bytes.
C5_Archive ==
    (zpc = "done" /\ zresp.status = 200)
        => /\ Len(zlog) = Len(zreq.files)
           /\ zresp.body = ExpectedEntries(Len(zreq.files))

C5_Witness ==
    /\ zpc = "done" /\ zresp.status = 200
    /\ Len(zreq.files) = 3 /\ Len(zresp.body) = 2
    /\ ~zlog[2].ok
    /\ zresp.body[1].name = zreq.files[1]
    /\ zresp.body[2].name = zreq.files[3]
    /\ zreq.files[1] # zreq.files[3]

\* C7: a POST without selected files is answered 400 and any other method
\* 405, with no network request issued and no archive built.
C7_Rejected ==
    /\ (zpc # "idle" /\ zreq.method # "POST")
         => /\ zpc = "done" /\ zresp.status = 405
            /\ net = 0 /\ zresp.body = NoBody /\ zip = <<>>
    /\ (zpc # "idle" /\ zreq.method = "POST" /\ zreq.files = <<>>)
         => /\ zpc = "done" /\ zresp.status = 400
            /\ net = 0 /\ zresp.body = NoBody /\ zip = <<>>

C7_Witness ==
    /\ zpc = "done" /\ zreq.method = "POST" /\ zreq.files = <<>>
    /\ zresp.status = 400 /\ net = 0

====
